---------------------------- MODULE Spec2Model ----------------------------
(***************************************************************************)
(* A model of the Word document merger of src/app.py.                      *)
(*                                                                         *)
(* A document package is modelled by what app.py reads from it: the        *)
(* top-level elements of its body (paragraphs, tables, a trailing section  *)
(* properties element) and its relationship table.  A text is a sequence   *)
(* of characters.  An uploaded file is an object with a name, its bytes    *)
(* (the package, or bytes that are no package) and a read cursor.          *)
(*                                                                         *)
(* The merged document is the sequence of the children of its body.  A     *)
(* new document holds one section properties element; the library's        *)
(* add_heading / add_paragraph / add_picture insert before the first       *)
(* section properties child of the body, and body.append puts an element   *)
(* after the last child.  Every image blob is taken to be of a format the   *)
(* library's add_picture accepts.                                          *)
(*                                                                         *)
(* Specifications:                                                         *)
(*   Spec        merge of one to MaxFiles files of a small catalogue       *)
(*   SpecText    merge of one file, every body within MaxBody / MaxText    *)
(*   SpecImages  merge of one file, every relationship table in MaxRels    *)
(*   SpecPreview get_document_preview on documents of <= MaxPreviewParas   *)
(*   SpecOrder   the ordering table of main and the list it computes       *)
(***************************************************************************)
EXTENDS Integers, Sequences, FiniteSets, TLC

VARIABLES
    files,            \* merge_word_documents: the list `files`, records [name, data]
    cursor,           \* read cursor of each file object: "start" or "eof"
    keep_styles,      \* checkbox / parameter
    keep_images,      \* checkbox / parameter
    pc,               \* position of the merge handler
    idx,              \* loop index of merge_word_documents (enumerate, from 0)
    merged_document,  \* children of merged_document.element.body
    progress_bar,     \* values passed to progress_bar.progress, in call order
    merged_doc,       \* <<>>, or <<body>> once merge_word_documents has returned
    shown,            \* what main shows: "none", "link" or "error"
    doc_paragraphs,   \* get_document_preview: doc.paragraphs of its argument
    preview,          \* <<>>, or <<text>> once get_document_preview has returned
    uploaded_files,   \* main: names of the uploaded file objects, in upload order
    edited_df,        \* main: rows [name, order] of the edited ordering table
    ordered_files     \* main: indices into uploaded_files, as appended

vars == <<files, cursor, keep_styles, keep_images, pc, idx, merged_document,
          progress_bar, merged_doc, shown, doc_paragraphs, preview,
          uploaded_files, edited_df, ordered_files>>

mergeVars == <<files, cursor, keep_styles, keep_images, pc, idx, merged_document,
               progress_bar, merged_doc, shown>>
previewVars == <<doc_paragraphs, preview>>
orderVars == <<uploaded_files, edited_df, ordered_files>>

----------------------------------------------------------------------------
(* Bounds *)

MaxFiles == 2
MaxBody == 2
MaxText == 2
MaxRels == 3
MaxPreviewParas == 7
MaxUploads == 2
MaxOrder == 2

(* Program constants *)

PreviewParagraphs == 5
HeadingLevel == 1
PictureWidthInches == 6
SeparatorLength == 50

----------------------------------------------------------------------------
(* Generic helpers *)

BoundedSeq(S, n) == UNION {[1..k -> S] : k \in 0..n}

Min(a, b) == IF a < b THEN a ELSE b

----------------------------------------------------------------------------
(* Texts *)

Whitespace == {" "}
Chars == {" ", "a"}
Texts == BoundedSeq(Chars, MaxText)

RECURSIVE LStrip(_)
LStrip(s) ==
    IF s = <<>> THEN s
    ELSE IF Head(s) \in Whitespace THEN LStrip(Tail(s)) ELSE s

RECURSIVE RStrip(_)
RStrip(s) ==
    IF s = <<>> THEN s
    ELSE IF s[Len(s)] \in Whitespace THEN RStrip(SubSeq(s, 1, Len(s) - 1)) ELSE s

\* str.strip(): leading and trailing whitespace removed
Strip(s) == RStrip(LStrip(s))

----------------------------------------------------------------------------
(* Document packages *)

Para(t) == [kind |-> "p", text |-> t]
Tbl(t) == [kind |-> "tbl", text |-> t]
SectPr == [kind |-> "sectPr", text |-> <<>>]

RelTypes == {<<"relationships", "image">>,
             <<"relationships", "hyperlink">>}
Blobs == {"A", "B", "C"}
Rels == [reltype : RelTypes, blob : Blobs]

\* bytes that are no document package (also what read() gives at end of file)
NotAPackage == [valid |-> FALSE, body |-> <<>>, rels |-> <<>>]

Package(content, sect, rels) ==
    [valid |-> TRUE,
     body |-> IF sect THEN Append(content, SectPr) ELSE content,
     rels |-> rels]

Names == {"a.docx", "b.docx"}


----------------------------------------------------------------------------
(* The document library, as app.py uses it *)

\* An element of the merged body.  kind, text, name, level, img and width are
\* the element's content; role and src record which statement of the merge
\* added it and for which input (0: the new document's own element).
Element(kind, role, text, name, level, img, width, src) ==
    [kind |-> kind, role |-> role, text |-> text, name |-> name,
     level |-> level, img |-> img, width |-> width, src |-> src]

\* Document(): the body of a new document holds its section properties only
NewDocument == <<Element("sectPr", "template", <<>>, "", 0, "", 0, 0)>>

\* Document(io.BytesIO(file_content)) raises unless the bytes are a package
ParsesLenient(data) == TRUE

Parses(data) == data.valid

\* position of the first section properties child, 0 if there is none
FirstSectPr(body) ==
    IF \E k \in 1..Len(body) : body[k].kind = "sectPr"
    THEN CHOOSE k \in 1..Len(body) :
             /\ body[k].kind = "sectPr"
             /\ \A j \in 1..(k - 1) : body[j].kind # "sectPr"
    ELSE 0

\* the paragraph-adding calls insert before the first section properties
\* child of the body, or append when the body has none
InsertBeforeSectPr(body, e) ==
    LET k == FirstSectPr(body)
    IN IF k = 0 THEN Append(body, e)
       ELSE SubSeq(body, 1, k - 1) \o <<e>> \o SubSeq(body, k, Len(body))

\* element.body.append(element): after the last child
BodyAppend(body, e) == Append(body, e)

add_heading_first(body, name, src) ==
    <<Element("heading", "heading", <<>>, name, HeadingLevel, "", 0, src)>> \o body

\* merged_document.add_heading(uploaded_file.name, level=1)
add_heading(body, name, src) ==
    InsertBeforeSectPr(body,
        Element("heading", "heading", <<>>, name, HeadingLevel, "", 0, src))

\* merged_document.add_paragraph(text)
add_paragraph(body, text, role, src) ==
    InsertBeforeSectPr(body, Element("p", role, text, "", 0, "", 0, src))

\* merged_document.add_picture(img_stream, width=Inches(6))
add_picture(body, blob, src) ==
    InsertBeforeSectPr(body,
        Element("pic", "picture", <<>>, "", 0, blob, PictureWidthInches, src))

\* doc.paragraphs: the paragraphs that are children of the body
Paragraphs(data) == SelectSeq(data.body, LAMBDA e : e.kind = "p")

\* "image" in rel.reltype
IsImageRel(rel) == \E k \in 1..Len(rel.reltype) : rel.reltype[k] = "image"

----------------------------------------------------------------------------
(* get_document_images *)

RECURSIVE ImagesLoop(_, _)
ImagesLoop(rels, images) ==
    IF rels = <<>> THEN images
    ELSE ImagesLoop(Tail(rels),
                    IF IsImageRel(Head(rels))
                    THEN Append(images, Head(rels).blob)
                    ELSE images)

get_document_images_unfiltered(data) ==
    [k \in 1..Len(data.rels) |-> data.rels[k].blob]

get_document_images(data) == ImagesLoop(data.rels, <<>>)

----------------------------------------------------------------------------
(* merge_word_documents, one input *)

\* for element in doc.element.body: merged_document.element.body.append(element)
RECURSIVE CopyElements(_, _, _)
CopyElements(body, elements, src) ==
    IF elements = <<>> THEN body
    ELSE CopyElements(
             BodyAppend(body,
                 Element(Head(elements).kind, "content", Head(elements).text,
                         "", 0, "", 0, src)),
             Tail(elements), src)

KeepsParagraphNoStrip(text) == text # <<>>

\* if paragraph.text.strip():
KeepsParagraph(text) == Strip(text) # <<>>

\* for paragraph in doc.paragraphs: ... merged_document.add_paragraph(paragraph.text)
RECURSIVE CopyText(_, _, _)
CopyText(body, paragraphs, src) ==
    IF paragraphs = <<>> THEN body
    ELSE CopyText(
             IF KeepsParagraph(Head(paragraphs).text)
             THEN add_paragraph(body, Head(paragraphs).text, "content", src)
             ELSE body,
             Tail(paragraphs), src)

RECURSIVE CopyImages(_, _, _)
CopyImages(body, images, src) ==
    IF images = <<>> THEN body
    ELSE CopyImages(add_picture(body, Head(images), src), Tail(images), src)

\* '=' * 50
SeparatorLine == [k \in 1..SeparatorLength |-> "="]

\* lines 46-70 for one parsed input
MergeOne(body, name, data, styles, images, src) ==
    LET b1 == add_heading(body, name, src)
        b2 == IF styles THEN CopyElements(b1, data.body, src)
                        ELSE CopyText(b1, Paragraphs(data), src)
        b3 == IF images THEN CopyImages(b2, get_document_images(data), src)
                        ELSE b2
        b4 == add_paragraph(b3, SeparatorLine, "separator", src)
    IN add_paragraph(b4, <<>>, "blank", src)

\* uploaded_file.read(): the bytes from the cursor on
Read(f, c) == IF c = "start" THEN f.data ELSE NotAPackage

----------------------------------------------------------------------------
(* The merge button of main, and merge_word_documents step by step *)

\* st.button: progress_bar = st.progress(0); merge_word_documents is entered
ClickMerge ==
    /\ pc \in {"idle", "done", "failed"}
    /\ pc' = "loop"
    /\ idx' = 0
    /\ merged_document' = NewDocument
    /\ progress_bar' = <<>>
    /\ merged_doc' = <<>>
    /\ shown' = "none"
    /\ UNCHANGED <<files, cursor, keep_styles, keep_images>>
    /\ UNCHANGED <<previewVars, orderVars>>

\* the head of an iteration: the progress bar is set to (idx + 1) / total_files
UpdateProgress ==
    /\ pc = "loop"
    /\ idx < Len(files)
    /\ progress_bar' = Append(progress_bar, <<idx + 1, Len(files)>>)
    /\ pc' = "body"
    /\ UNCHANGED <<files, cursor, keep_styles, keep_images, idx,
                   merged_document, merged_doc, shown>>
    /\ UNCHANGED <<previewVars, orderVars>>

\* the rest of the iteration when the bytes read parse
ProcessFile ==
    /\ pc = "body"
    /\ LET i == idx + 1
           file_content == Read(files[i], cursor[i])
       IN /\ Parses(file_content)
          /\ merged_document' = MergeOne(merged_document, files[i].name,
                                         file_content, keep_styles, keep_images, i)
          \* read() left the cursor at the end; seek(0)
          /\ cursor' = [cursor EXCEPT ![i] = "start"]
    /\ idx' = idx + 1
    /\ pc' = "loop"
    /\ UNCHANGED <<files, keep_styles, keep_images, progress_bar, merged_doc, shown>>
    /\ UNCHANGED <<previewVars, orderVars>>

\* the iteration when Document() raises: the exception leaves the function
\* and main's except branch shows the error
ProcessFileRaises ==
    /\ pc = "body"
    /\ LET i == idx + 1
           file_content == Read(files[i], cursor[i])
       IN /\ ~Parses(file_content)
          /\ cursor' = [cursor EXCEPT ![i] = "eof"]
    /\ pc' = "failed"
    /\ shown' = "error"
    /\ UNCHANGED <<files, keep_styles, keep_images, idx, merged_document,
                   progress_bar, merged_doc>>
    /\ UNCHANGED <<previewVars, orderVars>>

\* after the loop: the document is saved and returned, main shows the link
SaveAndReturn ==
    /\ pc = "loop"
    /\ idx = Len(files)
    /\ merged_doc' = <<merged_document>>
    /\ shown' = "link"
    /\ pc' = "done"
    /\ UNCHANGED <<files, cursor, keep_styles, keep_images, idx,
                   merged_document, progress_bar>>
    /\ UNCHANGED <<previewVars, orderVars>>

\* the preview loop of main for one selected file: f.read(); f.seek(0)
PreviewRead ==
    /\ pc \in {"idle", "done", "failed"}
    /\ \E i \in 1..Len(files) : cursor' = [cursor EXCEPT ![i] = "start"]
    /\ UNCHANGED <<files, keep_styles, keep_images, pc, idx, merged_document,
                   progress_bar, merged_doc, shown>>
    /\ UNCHANGED <<previewVars, orderVars>>

NextMerge ==
    \/ ClickMerge
    \/ UpdateProgress
    \/ ProcessFile
    \/ ProcessFileRaises
    \/ SaveAndReturn
    \/ PreviewRead

\* the variables of the other handlers, at rest
PreviewIdle == doc_paragraphs = <<>> /\ preview = <<>>
OrderIdle == uploaded_files = <<>> /\ edited_df = <<>> /\ ordered_files = <<>>

MergeStart(fs) ==
    /\ files = fs
    /\ cursor = [k \in 1..Len(fs) |-> "start"]
    /\ keep_styles \in BOOLEAN
    /\ keep_images \in BOOLEAN
    /\ pc = "idle"
    /\ idx = 0
    /\ merged_document = <<>>
    /\ progress_bar = <<>>
    /\ merged_doc = <<>>
    /\ shown = "none"
    /\ PreviewIdle
    /\ OrderIdle

\* a small catalogue of uploads for the merges of several files
Catalogue ==
    { NotAPackage,
      Package(<<Para(<<"a">>)>>, TRUE, <<>>),
      Package(<<Para(<<" ">>), Tbl(<<"a">>)>>, TRUE,
              <<[reltype |-> <<"relationships", "image">>, blob |-> "A"]>>),
      Package(<<>>, FALSE,
              <<[reltype |-> <<"relationships", "hyperlink">>, blob |-> "B"],
                [reltype |-> <<"relationships", "image">>, blob |-> "C"]>>) }

FileLists(datas, n) ==
    {fs \in BoundedSeq([name : Names, data : datas], n) : fs # <<>>}

Init == \E fs \in FileLists(Catalogue, MaxFiles) : MergeStart(fs)

Spec == Init /\ [][NextMerge]_vars


\* one uploaded file whose body ranges over every body within the bounds
TableTexts == {<<" ">>, <<"a">>}
BodyElements == {Para(t) : t \in Texts} \cup {Tbl(t) : t \in TableTexts}
TextPackages ==
    {Package(content, sect, <<>>) :
        content \in BoundedSeq(BodyElements, MaxBody), sect \in BOOLEAN}

InitText ==
    \E data \in TextPackages \cup {NotAPackage} :
        MergeStart(<<[name |-> "a.docx", data |-> data]>>)

SpecText == InitText /\ [][NextMerge]_vars

\* one uploaded file whose relationship table ranges over every table within
\* the bound
ImagePackages ==
    {Package(<<Para(<<"a">>)>>, TRUE, rels) : rels \in BoundedSeq(Rels, MaxRels)}

InitImages ==
    \E data \in ImagePackages \cup {NotAPackage} :
        MergeStart(<<[name |-> "a.docx", data |-> data]>>)

SpecImages == InitImages /\ [][NextMerge]_vars

----------------------------------------------------------------------------
(* Properties of the merge *)

NonBlank(t) == \E k \in 1..Len(t) : t[k] \notin Whitespace

RoleRank(role) ==
    CASE role = "heading" -> 1
      [] role = "content" -> 2
      [] role = "picture" -> 3
      [] role = "separator" -> 4
      [] role = "blank" -> 5
      [] OTHER -> 0

\* the merged body without the new document's own section properties
OwnContent(body) == SelectSeq(body, LAMBDA e : e.role # "template")

\* C1: the body of the returned document is one contiguous block per input,
\* in input order, and each block is heading, copied content, pictures,
\* 50-character separator, blank paragraph; nothing follows the last blank.
C1_BlocksInInputOrder ==
    pc = "done" =>
        LET whole == merged_doc[1]
            b == OwnContent(whole)
        IN /\ \A k \in 1..(Len(b) - 1) :
                  \/ b[k].src < b[k + 1].src
                  \/ /\ b[k].src = b[k + 1].src
                     /\ RoleRank(b[k].role) <= RoleRank(b[k + 1].role)
           /\ \A i \in 1..Len(files) :
                  /\ Cardinality({k \in 1..Len(b) :
                         b[k].src = i /\ b[k].role = "heading"}) = 1
                  /\ Cardinality({k \in 1..Len(b) :
                         /\ b[k].src = i
                         /\ b[k].role = "separator"
                         /\ Len(b[k].text) = SeparatorLength}) = 1
                  /\ Cardinality({k \in 1..Len(b) :
                         b[k].src = i /\ b[k].role = "blank"}) = 1
           /\ \A k \in 1..Len(whole) :
                  whole[k].role \in {"content", "picture"} =>
                      \E j \in (k + 1)..Len(whole) : whole[j].role = "separator"

Headings(body) == SelectSeq(body, LAMBDA e : e.kind = "heading")

\* C2: the level-1 headings added so far are the names of the inputs processed
\* so far, in input order, one per input; in the returned document they are
\* the names of all the inputs.
C2_HeadingsAreNamesInOrder ==
    LET hs == Headings(merged_document)
    IN /\ Len(hs) = (IF pc = "idle" THEN 0 ELSE idx)
       /\ \A k \in 1..Len(hs) :
              hs[k].name = files[k].name /\ hs[k].level = HeadingLevel
       /\ pc = "done" =>
              /\ Len(hs) = Len(files)
              /\ merged_doc = <<merged_document>>

C2_Witness ==
    /\ pc = "done"
    /\ Len(files) = 2
    /\ files[1].name = files[2].name
    /\ Len(Headings(merged_doc[1])) = 2

\* the texts of the paragraphs the plain-text copy added
PlainTexts(body) ==
    LET ps == SelectSeq(body, LAMBDA e : e.kind = "p" /\ e.role = "content")
    IN [k \in 1..Len(ps) |-> ps[k].text]

InputParagraphTexts(data) ==
    LET ps == SelectSeq(data.body, LAMBDA e : e.kind = "p")
    IN [k \in 1..Len(ps) |-> ps[k].text]

\* C3: with keep_styles off, the paragraphs appended for an input are its
\* paragraphs that hold a non-whitespace character, in document order, each
\* with its text as it was; no blank paragraph is appended.
C3_PlainCopyKeepsNonBlank ==
    (pc = "done" /\ ~keep_styles) =>
        /\ PlainTexts(merged_doc[1]) =
               SelectSeq(InputParagraphTexts(files[1].data), NonBlank)
        /\ \A k \in 1..Len(merged_doc[1]) :
               merged_doc[1][k].role = "content" =>
                   /\ merged_doc[1][k].kind = "p"
                   /\ NonBlank(merged_doc[1][k].text)

C3_Witness ==
    /\ pc = "done"
    /\ ~keep_styles
    /\ InputParagraphTexts(files[1].data) = << <<" ">>, <<" ", "a">> >>
    /\ PlainTexts(merged_doc[1]) = << <<" ", "a">> >>

\* C4: with keep_styles off, every body-level paragraph or table of the input
\* that carries non-blank text has that text in the returned document.
C4_NoTextDropped ==
    (pc = "done" /\ ~keep_styles) =>
        \A k \in 1..Len(files[1].data.body) :
            LET e == files[1].data.body[k]
            IN (e.kind \in {"p", "tbl"} /\ NonBlank(e.text)) =>
                   \E j \in 1..Len(merged_doc[1]) :
                       /\ merged_doc[1][j].role = "content"
                       /\ merged_doc[1][j].text = e.text

Pictures(body) == SelectSeq(body, LAMBDA e : e.kind = "pic")

ImageBlobs(rels) ==
    LET im == SelectSeq(rels,
                  LAMBDA r : \E k \in 1..Len(r.reltype) : r.reltype[k] = "image")
    IN [k \in 1..Len(im) |-> im[k].blob]

C6_MalformedInputFailsWhole ==
    /\ (\E i \in 1..Len(files) : ~files[i].data.valid) =>
           /\ pc # "done"
           /\ merged_doc = <<>>
           /\ shown # "link"
    /\ pc = "failed" => (shown = "error" /\ merged_doc = <<>>)

C6_Witness ==
    /\ pc = "failed"
    /\ idx = 1
    /\ files[1].data.valid
    /\ Len(merged_document) > 1
    /\ shown = "error"

\* C7: after a merge call, returned or failed, every input's read cursor is
\* back at the start.
C7_CursorsResetAfterMerge ==
    pc \in {"done", "failed"} =>
        \A i \in 1..Len(files) : cursor[i] = "start"

\* C8: the k-th progress report is k/N, and it is made only after k inputs
\* have been completely processed.
C8_ProgressAfterProcessing ==
    /\ \A k \in 1..Len(progress_bar) : progress_bar[k] = <<k, Len(files)>>
    /\ Len(progress_bar) <= idx


----------------------------------------------------------------------------
(* get_document_preview *)

PreviewTexts == {<<" ">>, <<"a">>, <<" ", "b">>}

PreviewSliceAll(paragraphs) == paragraphs

\* doc.paragraphs[:5]
PreviewSlice(paragraphs) ==
    SubSeq(paragraphs, 1, Min(PreviewParagraphs, Len(paragraphs)))

RECURSIVE PreviewLoop(_, _)
PreviewLoop(paragraphs, preview_text) ==
    IF paragraphs = <<>> THEN preview_text
    ELSE PreviewLoop(Tail(paragraphs),
                     IF KeepsParagraph(Head(paragraphs))
                     THEN Append(preview_text, Head(paragraphs))
                     ELSE preview_text)

\* "\n".join(preview_text)
RECURSIVE JoinLines(_)
JoinLines(lines) ==
    IF lines = <<>> THEN <<>>
    ELSE IF Len(lines) = 1 THEN Head(lines)
    ELSE Head(lines) \o <<"\n">> \o JoinLines(Tail(lines))

get_document_preview(paragraphs) ==
    JoinLines(PreviewLoop(PreviewSlice(paragraphs), <<>>))

GetPreview ==
    /\ preview = <<>>
    /\ preview' = <<get_document_preview(doc_paragraphs)>>
    /\ UNCHANGED doc_paragraphs
    /\ UNCHANGED <<mergeVars, orderVars>>

NextPreview == GetPreview

MergeIdle ==
    /\ files = <<>>
    /\ cursor = <<>>
    /\ keep_styles = TRUE
    /\ keep_images = TRUE
    /\ pc = "idle"
    /\ idx = 0
    /\ merged_document = <<>>
    /\ progress_bar = <<>>
    /\ merged_doc = <<>>
    /\ shown = "none"

InitPreview ==
    /\ doc_paragraphs \in BoundedSeq(PreviewTexts, MaxPreviewParas)
    /\ preview = <<>>
    /\ MergeIdle
    /\ OrderIdle

SpecPreview == InitPreview /\ [][NextPreview]_vars

\* the lines of a text: the pieces between its newline characters
RECURSIVE SplitLines(_, _)
SplitLines(text, line) ==
    IF text = <<>> THEN (IF line = <<>> THEN <<>> ELSE <<line>>)
    ELSE IF Head(text) = "\n" THEN <<line>> \o SplitLines(Tail(text), <<>>)
    ELSE SplitLines(Tail(text), Append(line, Head(text)))

\* C9: the preview's lines are the non-blank ones among the first min(5, n)
\* paragraphs, in document order and untrimmed; a paragraph at position 6 or
\* later contributes nothing; 7 non-blank paragraphs give their first 5.
C9_PreviewIsFirstFiveNonBlank ==
    preview # <<>> =>
        LET n == Len(doc_paragraphs)
            first == [k \in 1..(IF n < 5 THEN n ELSE 5) |-> doc_paragraphs[k]]
            lines == SplitLines(preview[1], <<>>)
        IN /\ lines = SelectSeq(first, NonBlank)
           /\ Len(lines) <= 5
           /\ (n = 7 /\ \A k \in 1..n : NonBlank(doc_paragraphs[k])) =>
                  lines = [k \in 1..5 |-> doc_paragraphs[k]]

C9_Witness ==
    /\ preview # <<>>
    /\ Len(doc_paragraphs) = 7
    /\ \A k \in 1..7 : NonBlank(doc_paragraphs[k])
    /\ doc_paragraphs[6] # doc_paragraphs[5]
    /\ Len(SplitLines(preview[1], <<>>)) = 5

----------------------------------------------------------------------------
(* The ordering table of main *)

TableNames == Names \cup {"x.docx"}

\* file_order_df: the names with the orders 1..n
DefaultTable(uploads) ==
    [k \in 1..Len(uploads) |-> [name |-> uploads[k], order |-> k]]

\* edited_df.sort_values: the row orders with the order column non-decreasing
\* (the default sort is not stable: rows with equal values come in any order)
SortedRowOrders(df) ==
    {perm \in [1..Len(df) -> 1..Len(df)] :
        /\ \A a, b \in 1..Len(df) : a # b => perm[a] # perm[b]
        /\ \A k \in 1..(Len(df) - 1) : df[perm[k]].order <= df[perm[k + 1]].order}

\* for f in uploaded_files: if f.name == row name: ordered_files.append(f)
RECURSIVE MatchingFiles(_, _, _, _)
MatchingFiles(uploads, k, name, acc) ==
    IF k > Len(uploads) THEN acc
    ELSE MatchingFiles(uploads, k + 1, name,
                       IF uploads[k] = name THEN Append(acc, k) ELSE acc)

\* for _, row in edited_df.sort_values(...).iterrows(): ...
RECURSIVE OrderLoop(_, _, _, _, _)
OrderLoop(df, perm, k, uploads, acc) ==
    IF k > Len(df) THEN acc
    ELSE OrderLoop(df, perm, k + 1, uploads,
                   MatchingFiles(uploads, 1, df[perm[k]].name, acc))

OrderedFiles(df, uploads) ==
    {OrderLoop(df, perm, 1, uploads, <<>>) : perm \in SortedRowOrders(df)}

\* the user edits an order cell; the script runs again
EditOrder ==
    /\ \E r \in 1..Len(edited_df), v \in 1..MaxOrder :
          /\ edited_df[r].order # v
          /\ edited_df' = [edited_df EXCEPT ![r].order = v]
    /\ ordered_files' \in OrderedFiles(edited_df', uploaded_files)
    /\ UNCHANGED uploaded_files
    /\ UNCHANGED <<mergeVars, previewVars>>

\* the user edits a file-name cell; the script runs again
EditName ==
    /\ \E r \in 1..Len(edited_df), nm \in TableNames :
          /\ edited_df[r].name # nm
          /\ edited_df' = [edited_df EXCEPT ![r].name = nm]
    /\ ordered_files' \in OrderedFiles(edited_df', uploaded_files)
    /\ UNCHANGED uploaded_files
    /\ UNCHANGED <<mergeVars, previewVars>>

NextOrder == EditOrder \/ EditName

InitOrder ==
    /\ uploaded_files \in {u \in BoundedSeq(Names, MaxUploads) : u # <<>>}
    /\ edited_df = DefaultTable(uploaded_files)
    /\ ordered_files \in OrderedFiles(edited_df, uploaded_files)
    /\ MergeIdle
    /\ PreviewIdle

SpecOrder == InitOrder /\ [][NextOrder]_vars

\* C10: the list passed to the merger holds every uploaded file exactly once,
\* in non-decreasing order of the files' order values in the table.
C10_OrderedFilesIsPermutation ==
    /\ Len(ordered_files) = Len(uploaded_files)
    /\ \A i \in 1..Len(uploaded_files) :
           Cardinality({k \in 1..Len(ordered_files) : ordered_files[k] = i}) = 1
    /\ \A k \in 1..(Len(ordered_files) - 1) :
           edited_df[ordered_files[k]].order <= edited_df[ordered_files[k + 1]].order

============================================================================
